---- MODULE Spec2Model ----
(***************************************************************************)
(* A model of IPython/config/application.py: the Application class, its    *)
(* construction (class registry, flag validation, logging), the help       *)
(* renderers, update_config, parse_command_line and load_config_file.      *)
(*                                                                         *)
(* Standard output is a sequence of lines, one per print statement.  A     *)
(* configuration object is a record [id, val]: id is the object's identity *)
(* (what Python's `is` compares), val its content, a function from         *)
(* <<section, attribute>> keys to values.  Dictionary iteration order is   *)
(* arbitrary, so every loop over a dict runs in a nondeterministically     *)
(* chosen order of its keys.                                               *)
(***************************************************************************)
EXTENDS Integers, Sequences, FiniteSets, TLC

VARIABLES
    cls,        \* self.__class__ : the concrete class of the instance
    declared,   \* the `classes` value the instance starts from (class body or keyword)
    kwargs,     \* the keyword arguments the constructor is called with, empty once it ran
    classes,    \* self.classes : the class registry
    aliases,    \* self.aliases
    flags,      \* self.flags
    config,     \* self.config : a configuration object [id, val]
    log_level,  \* self.log_level
    log,        \* self.log : the logger, [exists, name, level, handlers]
    phase,      \* "new" | "ready" | "failed" (constructor raised) | "exited" (sys.exit)
    exitStatus, \* the argument of sys.exit, -1 while the process runs
    call,       \* the last call made on the instance and what it was given
    trace,      \* the calls the last call made, in order
    output,     \* what the last call printed
    raised,     \* the exception the last call propagated, "" when it returned
    errKey,     \* the flag key an AssertionError message names
    passed,     \* the object the last call handed to update_config
    newconfig,  \* update_config's local `newconfig` when the last call returned
    nextId,     \* the identity the next allocated configuration object gets
    ncalls      \* the number of calls made on the instance

vars == <<cls, declared, kwargs, classes, aliases, flags, config, log_level, log,
          phase, exitStatus, call, trace, output, raised, errKey, passed,
          newconfig, nextId, ncalls>>

-----------------------------------------------------------------------------
(* Bounds of the model *)

MaxCalls == 2

MaxArgv == 2

-----------------------------------------------------------------------------
(* Class attributes of Application *)

Levels == {0, 10, 20, 30, 40, 50}

WARN == 30

Description == "This is an application."

Version == "0.0"

Range(s) == {s[i] : i \in DOMAIN s}

\* Every order in which the keys of a dict can be iterated.
Orders(S) == {f \in [1..Cardinality(S) -> S] : \A i, j \in 1..Cardinality(S) : f[i] = f[j] => i = j}

-----------------------------------------------------------------------------
(* Configuration objects *)

EmptyVal == [k \in {} |-> 0]

NoObj == [id |-> 0, val |-> EmptyVal]

\* Config._merge: keys of b are added to a, b winning on conflict.
Merge(a, b) == [k \in (DOMAIN a) \cup (DOMAIN b) |-> IF k \in DOMAIN b THEN b[k] ELSE a[k]]

AppLogLevel(v) == [k \in {<<"Application", "log_level">>} |-> v]

FooX == [k \in {<<"Foo", "x">>} |-> 1]

-----------------------------------------------------------------------------
(* The classes of a program that uses Application: Application itself, a   *)
(* subclass MyApp that adds no attribute, and a configurable class Foo.    *)

AppClasses == {"Application", "MyApp"}

\* cls.class_traits(config=True): the configurable attributes of a class.
\* log_level is Application's only attribute declared with config=True.
ConfigTraits(c) ==
    CASE c = "Application" -> {"log_level"}
      [] c = "MyApp"       -> {"log_level"}
      [] c = "Foo"         -> {"x"}
      [] OTHER             -> {}

\* trait.__class__.__name__
TraitTypeName(c, t) == IF t = "log_level" THEN "Enum" ELSE "Int"

\* trait.get_metadata('help'); Foo.x is declared without help text.
TraitHelp(c, t) == IF t = "log_level" THEN "Set the log level (0,10,20,30,40,50)." ELSE ""

\* The configuration sections an instance of class c reads its attributes
\* from: its own class and its configurable base classes, base first.
SectionNames(c) == IF c = "Application" THEN <<"Application">> ELSE <<"Application", c>>

-----------------------------------------------------------------------------
(* Alias tables.  A target "Class.attribute" is the sequence of its        *)
(* dot-separated segments.                                                 *)

NoAliases == [a \in {} |-> <<>>]

\* aliases = Dict(dict(log_level='Application.log_level'))
DefaultAliases == [a \in {"log_level"} |-> <<"Application", "log_level">>]

\* An instance either inherits Application's table or has a table of its own,
\* whose targets are then configurable attributes of the classes it registers.
AliasTables(c, d) ==
    {DefaultAliases, NoAliases, [a \in {"ll"} |-> <<c, "log_level">>]}
    \cup (IF "Foo" \in Range(d)
          THEN {[a \in {"ll", "fx"} |-> IF a = "ll" THEN <<c, "log_level">> ELSE <<"Foo", "x">>]}
          ELSE {})

-----------------------------------------------------------------------------
(* Flag tables.  A value is a sequence of elements; an element carries its *)
(* Python type t, and its content: cfg for a dict or Config, s for a str.  *)

DictEl(v) == [t |-> "dict", cfg |-> v, s |-> ""]

ConfigEl(v) == [t |-> "Config", cfg |-> v, s |-> ""]

StrEl(x) == [t |-> "str", cfg |-> EmptyVal, s |-> x]

IntEl == [t |-> "int", cfg |-> EmptyVal, s |-> ""]

DebugFlag == <<DictEl(AppLogLevel(10)), StrEl("enable debug")>>

QuietFlag == <<ConfigEl(AppLogLevel(40)), StrEl("quiet")>>

\* Values that are not a (dict-or-Config, str) pair: wrong length, wrong
\* first element, wrong second element.
BadFlagValues ==
    { <<>>,
      <<DictEl(FooX)>>,
      <<DictEl(FooX), StrEl("h"), StrEl("h")>>,
      <<StrEl("c"), StrEl("h")>>,
      <<IntEl, StrEl("h")>>,
      <<DictEl(FooX), IntEl>>,
      <<ConfigEl(FooX), DictEl(FooX)>> }

\* flags = Dict()
NoFlags == [m \in {} |-> <<>>]

\* A table declares "debug", "quiet", both or neither, each well or badly.
FlagTables ==
    UNION { { t \in [K -> {DebugFlag, QuietFlag} \cup BadFlagValues] :
                \A m \in K : t[m] \in BadFlagValues \cup {IF m = "debug" THEN DebugFlag ELSE QuietFlag} }
            : K \in SUBSET {"debug", "quiet"} }

-----------------------------------------------------------------------------
(* Inputs of the operations *)

NoKwargs == [k \in {} |-> 0]

KwargSets == {NoKwargs} \cup {[k \in {"log_level"} |-> v] : v \in Levels}

\* The contents a caller passes to update_config.
CallerConfigs == {EmptyVal, AppLogLevel(20), Merge(AppLogLevel(50), FooX)}

\* The configuration files that exist, by name, and what loading each gives.
FileSystem ==
    [f \in {"a.py", "b.py"} |->
        IF f = "a.py" THEN Merge(AppLogLevel(40), FooX)
        ELSE [k \in {<<"MyApp", "log_level">>} |-> 0]]

FileNames == {"a.py", "b.py", "does_not_exist.py"}

\* Command-line tokens, and what the key-value loader reads in each.
Tokens == {"-h", "--help", "--version", "--debug", "log_level=10"}

Argvs == UNION { [1..n -> Tokens] : n \in 0..MaxArgv }

-----------------------------------------------------------------------------
(* Construction *)

NoLog == [exists |-> FALSE, name |-> "", level |-> 0, handlers |-> 0]

NoCall == [op |-> "", argvHelp |-> FALSE, argvVersion |-> FALSE, loader |-> "none"]

\* The state before __init__ runs: the attributes hold their declared values.
Init ==
    /\ cls \in AppClasses
    /\ declared \in {<<>>, <<"Foo">>}
    /\ kwargs \in KwargSets
    /\ classes = declared
    /\ aliases \in AliasTables(cls, declared)
    /\ flags \in FlagTables
    /\ config = [id |-> 1, val |-> EmptyVal]
    /\ log_level = WARN
    /\ log = NoLog
    /\ phase = "new"
    /\ exitStatus = -1
    /\ call = NoCall
    /\ trace = <<>>
    /\ output = <<>>
    /\ raised = ""
    /\ errKey = ""
    /\ passed = NoObj
    /\ newconfig = NoObj
    /\ nextId = 2
    /\ ncalls = 0

\* _log_level_changed: self.log.setLevel(new)
log_level_changed(lg, new) == [lg EXCEPT !.level = new]

\* Assigning v to the log_level attribute of an instance whose log_level is
\* ll and whose logger is lg: the value is stored and, when it changed, the
\* change handler runs; the handler reads self.log, which exists only once
\* init_logging has run.
SetLogLevel(ll, lg, v) ==
    IF v = ll THEN [log_level |-> ll, log |-> lg, raised |-> ""]
    ELSE IF ~lg.exists THEN [log_level |-> v, log |-> lg, raised |-> "AttributeError"]
    ELSE [log_level |-> v, log |-> log_level_changed(lg, v), raised |-> ""]

\* A registration that appends the class instead of inserting it in front.
AppendOwnClass(cs, c) == cs \o <<c>>

\* self.classes.insert(0, self.__class__)
InsertOwnClass(cs, c) == <<c>> \o cs

\* The three assertions on one flag value, in order.
FlagValueOK(value) ==
    /\ Len(value) = 2
    /\ value[1].t \in {"dict", "Config"}
    /\ value[2].t = "str"

\* init_logging: the logger named after the class, at the current level,
\* with one stream handler.
init_logging(c, ll) == [exists |-> TRUE, name |-> c, level |-> ll, handlers |-> 1]

\* __init__: the base class sets the keyword attributes, then the class is
\* registered, the flags are validated in iteration order, and logging starts.
Construct ==
    /\ phase = "new"
    /\ LET kw == IF "log_level" \in DOMAIN kwargs
                 THEN SetLogLevel(log_level, log, kwargs["log_level"])
                 ELSE [log_level |-> log_level, log |-> log, raised |-> ""]
       IN IF kw.raised # ""
          THEN /\ phase' = "failed"
               /\ raised' = kw.raised
               /\ log_level' = kw.log_level
               /\ UNCHANGED <<classes, log, errKey>>
          ELSE /\ classes' = InsertOwnClass(classes, cls)
               /\ log_level' = kw.log_level
               /\ \E ord \in Orders(DOMAIN flags) :
                     LET bad == {i \in DOMAIN ord : ~FlagValueOK(flags[ord[i]])}
                     IN IF bad # {}
                        THEN /\ phase' = "failed"
                             /\ raised' = "AssertionError"
                             /\ errKey' = ord[CHOOSE i \in bad : \A j \in bad : i <= j]
                             /\ log' = log
                        ELSE /\ phase' = "ready"
                             /\ raised' = ""
                             /\ errKey' = ""
                             /\ log' = init_logging(cls, kw.log_level)
    /\ kwargs' = NoKwargs
    /\ UNCHANGED <<cls, declared, aliases, flags, config, exitStatus, call,
                   trace, output, passed, newconfig, nextId, ncalls>>

-----------------------------------------------------------------------------
(* Help rendering.  Each print statement gives one line [sec, kind, text,  *)
(* detail]: the section it belongs to, what it is, and its content.        *)

Line(sec, kind, text, detail) == [sec |-> sec, kind |-> kind, text |-> text, detail |-> detail]

Blank(sec) == Line(sec, "blank", "", <<>>)

\* print_flag_help, iterating the flags in order ord.
print_flag_help(ord) ==
    IF DOMAIN flags = {} THEN <<>>
    ELSE << Line("Flags", "header", "Flags", <<>>),
            Line("Flags", "rule", "-----", <<>>),
            Line("Flags", "text", "flag_description", <<>>),
            Blank("Flags") >>
         \o [i \in 1..(2 * Len(ord)) |->
                IF i % 2 = 1
                THEN Line("Flags", "entry", ord[(i + 1) \div 2], <<>>)
                ELSE Line("Flags", "help", flags[ord[i \div 2]][2].s, <<>>)]
         \o << Blank("Flags") >>

\* classdict: the registered classes by name.
classdict == Range(classes)

\* One pass of print_alias_help's loop, for the alias `alias`: the exception
\* it raises ("" when none) and the lines it prints.
AliasEntry(alias) ==
    LET longname  == aliases[alias]
        classname == longname[1]
        traitname == Tail(longname)
    IN IF Len(longname) < 2
       THEN [raised |-> "ValueError", out |-> <<>>]
       ELSE IF classname \notin classdict
       THEN [raised |-> "KeyError", out |-> <<>>]
       ELSE IF Len(traitname) # 1 \/ traitname[1] \notin ConfigTraits(classname)
       THEN [raised |-> "KeyError", out |-> <<>>]
       ELSE [raised |-> "",
             out |-> << Line("Aliases", "entry", alias,
                             longname \o <<TraitTypeName(classname, traitname[1])>>) >>
                     \o (IF TraitHelp(classname, traitname[1]) # ""
                         THEN << Line("Aliases", "help", TraitHelp(classname, traitname[1]), <<>>) >>
                         ELSE <<>>)]

RECURSIVE AliasLoop(_, _)
\* The loop of print_alias_help from position i of the order ord on.
AliasLoop(ord, i) ==
    IF i > Len(ord) THEN [raised |-> "", out |-> <<>>]
    ELSE LET e == AliasEntry(ord[i])
         IN IF e.raised # "" THEN e
            ELSE LET rest == AliasLoop(ord, i + 1)
                 IN [raised |-> rest.raised, out |-> e.out \o rest.out]

\* print_alias_help, iterating the aliases in order ord.
print_alias_help(ord) ==
    IF DOMAIN aliases = {} THEN [raised |-> "", out |-> <<>>]
    ELSE LET hdr  == << Line("Aliases", "header", "Aliases", <<>>),
                        Line("Aliases", "rule", "-------", <<>>),
                        Line("Aliases", "text", "alias_description", <<>>),
                        Blank("Aliases") >>
             loop == AliasLoop(ord, 1)
         IN IF loop.raised # ""
            THEN [raised |-> loop.raised, out |-> hdr \o loop.out]
            ELSE [raised |-> "", out |-> hdr \o loop.out \o << Blank("Aliases") >>]

\* print_help: flag help, alias help, the class-parameter header, then the
\* help of every registered class, each followed by a blank line.
print_help(ford, aord) ==
    LET f == print_flag_help(ford)
        a == print_alias_help(aord)
    IN IF a.raised # "" THEN [raised |-> a.raised, out |-> f \o a.out]
       ELSE [raised |-> "",
             out |-> f \o a.out
                     \o (IF classes # <<>>
                         THEN << Line("Class parameters", "header", "Class parameters", <<>>),
                                 Line("Class parameters", "rule", "----------------", <<>>),
                                 Line("Class parameters", "text", "keyvalue_description", <<>>),
                                 Blank("Class parameters") >>
                         ELSE <<>>)
                     \o [i \in 1..(2 * Len(classes)) |->
                            IF i % 2 = 1
                            THEN Line("Class", "classhelp", classes[(i + 1) \div 2], <<>>)
                            ELSE Blank("Class")]]

\* print_description
print_description == << Line("Description", "text", Description, <<>>), Blank("Description") >>

\* A print_version that prints the description before the version.
print_version_after_description ==
    print_description \o << Line("Version", "text", Version, <<>>) >>

\* print_version
print_version == << Line("Version", "text", Version, <<>>) >>

-----------------------------------------------------------------------------
(* Configuration: the attribute store's reaction to a new config, the      *)
(* loaders, and update_config.  An operation works on a record R of the    *)
(* instance's mutable state and gives the record it leaves.                *)

Start ==
    [ config |-> config, log_level |-> log_level, log |-> log, phase |-> phase,
      exitStatus |-> exitStatus, trace |-> <<>>, output |-> <<>>, raised |-> "",
      passed |-> NoObj, newconfig |-> NoObj, nextId |-> nextId ]

RECURSIVE LoadSections(_, _, _, _)
\* The instance's configurable attribute log_level is set from each of its
\* sections of val that holds it, in order from position i of secs on.
LoadSections(val, secs, i, st) ==
    IF i > Len(secs) \/ st.raised # "" THEN st
    ELSE IF <<secs[i], "log_level">> \in DOMAIN val
    THEN LoadSections(val, secs, i + 1,
                      SetLogLevel(st.log_level, st.log, val[<<secs[i], "log_level">>]))
    ELSE LoadSections(val, secs, i + 1, st)

\* The change notification of the config attribute: when the content
\* changed, the configurable attributes are loaded from the new content.
config_changed(R, old) ==
    IF R.config.val = old.val THEN R
    ELSE LET st == LoadSections(R.config.val, SectionNames(cls), 1,
                                [log_level |-> R.log_level, log |-> R.log, raised |-> ""])
         IN [R EXCEPT !.log_level = st.log_level, !.log = st.log, !.raised = st.raised]

\* deepcopy(obj): a new object with the same content.
deepcopy(obj, id) == [id |-> id, val |-> obj.val]

\* An update_config that stores the combined object it computed.
StoredMerged(merged, given) == merged

\* self.config = config : the object update_config stores.
StoredConfig(merged, given) == given

\* update_config(cfg)
update_config(R, cfg) ==
    LET copy   == deepcopy(R.config, R.nextId)
        merged == [copy EXCEPT !.val = Merge(copy.val, cfg.val)]
        R1     == [R EXCEPT !.trace = Append(@, "update_config"),
                            !.passed = cfg,
                            !.newconfig = merged,
                            !.nextId = @ + 1,
                            !.config = StoredConfig(merged, cfg)]
    IN config_changed(R1, R.config)

\* What the key-value loader reads in one token.
KVItem(tok) ==
    CASE tok = "--debug"      -> [kind |-> "flag", name |-> "debug", lhs |-> <<>>, val |-> 0]
      [] tok = "log_level=10" -> [kind |-> "kv", name |-> "", lhs |-> <<"log_level">>, val |-> 10]
      [] OTHER                -> [kind |-> "flag", name |-> tok, lhs |-> <<>>, val |-> 0]

RECURSIVE KVLoop(_, _, _)
\* KeyValueConfigLoader.load_config from position i of argv on, acc being the
\* content read so far: a flag adds its fragment, name=value sets the target
\* of the alias or the Class.attribute named; anything else is an error.
KVLoop(argv, i, acc) ==
    IF i > Len(argv) THEN [ok |-> TRUE, val |-> acc]
    ELSE LET item == KVItem(argv[i])
             lhs  == IF Len(item.lhs) = 1 /\ item.lhs[1] \in DOMAIN aliases
                     THEN aliases[item.lhs[1]] ELSE item.lhs
         IN IF item.kind = "flag"
            THEN IF item.name \in DOMAIN flags
                 THEN KVLoop(argv, i + 1, Merge(acc, flags[item.name][1].cfg))
                 ELSE [ok |-> FALSE, val |-> acc]
            ELSE IF Len(lhs) = 2
                 THEN KVLoop(argv, i + 1, Merge(acc, [k \in {<<lhs[1], lhs[2]>>} |-> item.val]))
                 ELSE [ok |-> FALSE, val |-> acc]

KVLoad(argv) == KVLoop(argv, 1, EmptyVal)

\* PyFileConfigLoader.load_config: the content of the file, when it exists.
PyFileLoad(filename) ==
    IF filename \in DOMAIN FileSystem
    THEN [ok |-> TRUE, val |-> FileSystem[filename]]
    ELSE [ok |-> FALSE, val |-> EmptyVal]

\* sys.exit(1)
sys_exit(R) == [R EXCEPT !.trace = Append(@, "sys.exit"), !.phase = "exited", !.exitStatus = 1]

\* parse_command_line(argv), the dicts iterated in orders ford and aord.
parse_command_line(R, argv, ford, aord) ==
    IF "-h" \in Range(argv) \/ "--help" \in Range(argv)
    THEN LET h  == print_help(ford, aord)
             R1 == [R EXCEPT !.trace = <<"print_description", "print_help">>,
                             !.output = print_description \o h.out,
                             !.raised = h.raised]
         IN IF h.raised # "" THEN R1 ELSE sys_exit(R1)
    ELSE IF "--version" \in Range(argv)
    THEN sys_exit([R EXCEPT !.trace = <<"print_version">>, !.output = print_version])
    ELSE LET r  == KVLoad(argv)
             R1 == [R EXCEPT !.trace = <<"KeyValueConfigLoader", "load_config">>]
         IN IF ~r.ok THEN [R1 EXCEPT !.raised = "ArgumentError"]
            ELSE update_config([R1 EXCEPT !.nextId = @ + 1], [id |-> R.nextId, val |-> r.val])

\* A load_config_file that treats a missing file as an empty configuration.
load_config_file_or_empty(R, filename) ==
    LET r  == PyFileLoad(filename)
        R1 == [R EXCEPT !.trace = <<"PyFileConfigLoader", "load_config">>]
    IN update_config([R1 EXCEPT !.nextId = @ + 1], [id |-> R.nextId, val |-> r.val])

\* load_config_file(filename)
load_config_file(R, filename) ==
    LET r  == PyFileLoad(filename)
        R1 == [R EXCEPT !.trace = <<"PyFileConfigLoader", "load_config">>]
    IN IF ~r.ok THEN [R1 EXCEPT !.raised = "IOError"]
       ELSE update_config([R1 EXCEPT !.nextId = @ + 1], [id |-> R.nextId, val |-> r.val])

-----------------------------------------------------------------------------
(* The calls a program makes on a constructed instance *)

Ready == phase = "ready" /\ ncalls < MaxCalls

Called(op) == [NoCall EXCEPT !.op = op]

Commit(c, R) ==
    /\ call' = c
    /\ ncalls' = ncalls + 1
    /\ config' = R.config
    /\ log_level' = R.log_level
    /\ log' = R.log
    /\ phase' = R.phase
    /\ exitStatus' = R.exitStatus
    /\ trace' = R.trace
    /\ output' = R.output
    /\ raised' = R.raised
    /\ passed' = R.passed
    /\ newconfig' = R.newconfig
    /\ nextId' = R.nextId
    /\ UNCHANGED <<cls, declared, kwargs, classes, aliases, flags, errKey>>

\* app.log_level = v
Call_set_log_level ==
    \E v \in Levels :
        /\ Ready
        /\ LET st == SetLogLevel(log_level, log, v)
           IN Commit(Called("set_log_level"),
                     [Start EXCEPT !.log_level = st.log_level, !.log = st.log, !.raised = st.raised])

\* app.update_config(cfg), cfg a configuration object of the caller's
Call_update_config ==
    \E val \in CallerConfigs :
        /\ Ready
        /\ Commit(Called("update_config"),
                  update_config([Start EXCEPT !.nextId = @ + 1], [id |-> nextId, val |-> val]))

Call_parse_command_line ==
    \E argv \in Argvs, ford \in Orders(DOMAIN flags), aord \in Orders(DOMAIN aliases) :
        /\ Ready
        /\ Commit([op |-> "parse_command_line",
                   argvHelp |-> ("-h" \in Range(argv) \/ "--help" \in Range(argv)),
                   argvVersion |-> ("--version" \in Range(argv)),
                   loader |-> IF {"-h", "--help", "--version"} \cap Range(argv) # {} THEN "none"
                              ELSE IF KVLoad(argv).ok THEN "ok" ELSE "failed"],
                  parse_command_line(Start, argv, ford, aord))

Call_load_config_file ==
    \E filename \in FileNames :
        /\ Ready
        /\ Commit([Called("load_config_file") EXCEPT
                       !.loader = IF PyFileLoad(filename).ok THEN "ok" ELSE "failed"],
                  load_config_file(Start, filename))

Call_print_flag_help ==
    \E ford \in Orders(DOMAIN flags) :
        /\ Ready
        /\ Commit(Called("print_flag_help"), [Start EXCEPT !.output = print_flag_help(ford)])

Call_print_alias_help ==
    \E aord \in Orders(DOMAIN aliases) :
        /\ Ready
        /\ LET a == print_alias_help(aord)
           IN Commit(Called("print_alias_help"),
                     [Start EXCEPT !.output = a.out, !.raised = a.raised])

Call_print_help ==
    \E ford \in Orders(DOMAIN flags), aord \in Orders(DOMAIN aliases) :
        /\ Ready
        /\ LET h == print_help(ford, aord)
           IN Commit(Called("print_help"), [Start EXCEPT !.output = h.out, !.raised = h.raised])

Call_print_description ==
    /\ Ready
    /\ Commit(Called("print_description"), [Start EXCEPT !.output = print_description])

Call_print_version ==
    /\ Ready
    /\ Commit(Called("print_version"), [Start EXCEPT !.output = print_version])

Next ==
    \/ Construct
    \/ Call_set_log_level
    \/ Call_update_config
    \/ Call_parse_command_line
    \/ Call_load_config_file
    \/ Call_print_flag_help
    \/ Call_print_alias_help
    \/ Call_print_help
    \/ Call_print_description
    \/ Call_print_version

Spec == Init /\ [][Next]_vars

-----------------------------------------------------------------------------
(* Properties *)

Constructed == phase \in {"ready", "exited"}

\* The last call reached update_config.
Updated == "update_config" \in Range(trace)

\* A flag value that is not a (dict-or-Config, str) pair.
BadPair(v) == Len(v) # 2 \/ v[1].t \notin {"dict", "Config"} \/ v[2].t # "str"

HasBadFlag == \E m \in DOMAIN flags : BadPair(flags[m])

\* C1: update_config(c) stores the combination of the prior configuration and
\* c: every prior key that c does not override keeps its value, and every key
\* of c is present with c's value.
C1_UpdateConfigMerges ==
    [][ (ncalls' = ncalls + 1 /\ "update_config" \in Range(trace'))
        => /\ \A k \in DOMAIN config.val :
                /\ k \in DOMAIN config'.val
                /\ k \notin DOMAIN passed'.val => config'.val[k] = config.val[k]
           /\ \A k \in DOMAIN passed'.val :
                /\ k \in DOMAIN config'.val
                /\ config'.val[k] = passed'.val[k] ]_vars

C3_HelpExits ==
    call.op = "parse_command_line"
    => /\ call.argvHelp
          => /\ phase = "exited"
             /\ exitStatus = 1
             /\ raised = ""
             /\ trace = <<"print_description", "print_help", "sys.exit">>
             /\ Len(output) > 2
             /\ output[1] = Line("Description", "text", Description, <<>>)
             /\ output[Len(output) - 1] = Line("Class", "classhelp", classes[Len(classes)], <<>>)
             /\ passed = NoObj
       /\ (~call.argvHelp /\ ~call.argvVersion /\ call.loader = "ok")
          => /\ phase = "ready"
             /\ raised = ""
             /\ trace = <<"KeyValueConfigLoader", "load_config", "update_config">>

\* C4: parse_command_line with --version and neither -h nor --help in argv
\* prints the version and nothing else, then exits with status 1; no loader
\* is constructed and self.config is unchanged.
C4_VersionExits ==
    [][ (ncalls' = ncalls + 1 /\ call'.op = "parse_command_line"
            /\ call'.argvVersion /\ ~call'.argvHelp)
        => /\ output' = << Line("Version", "text", Version, <<>>) >>
           /\ phase' = "exited"
           /\ exitStatus' = 1
           /\ raised' = ""
           /\ "KeyValueConfigLoader" \notin Range(trace')
           /\ ~Updated'
           /\ config' = config
           /\ log_level' = log_level ]_vars

\* C4's case: a --version request has been served.
C4_Witness ==
    /\ call.op = "parse_command_line"
    /\ call.argvVersion
    /\ ~call.argvHelp
    /\ phase = "exited"

\* C5: once construction has completed, and after any later calls, classes[0]
\* is the instance's own class and the registry is the own class followed by
\* the classes it started from, in their order.
C5_OwnClassFirst ==
    Constructed => (classes[1] = cls /\ classes = <<cls>> \o declared)

\* C5's case: a subclass with other registered classes, after two calls, the
\* last of which replaced the configuration.
C5_Witness ==
    /\ phase = "ready"
    /\ cls = "MyApp"
    /\ declared # <<>>
    /\ ncalls > 1
    /\ Updated

\* C6: construction with a flags table that has a bad entry fails with an
\* AssertionError naming a bad key, before any logger is set up; with a
\* table of well-formed pairs it never fails at the validation.
C6_BadFlagsAssert ==
    phase # "new"
    => IF HasBadFlag
       THEN /\ phase = "failed"
            /\ raised = "AssertionError"
            /\ errKey \in DOMAIN flags
            /\ BadPair(flags[errKey])
            /\ ~log.exists
       ELSE raised # "AssertionError"

\* C7: construction with a log_level keyword from the allowed set succeeds,
\* and in every state after construction the logger's level is log_level.
C7_LoggerFollowsLevel ==
    (phase # "new" /\ ~HasBadFlag)
    => /\ Constructed
       /\ log.exists
       /\ log.level = log_level

\* C8: after construction every alias target names a registered class and a
\* configurable attribute of it, so print_alias_help raises no lookup error.
C8_AliasesResolve ==
    Constructed
    => /\ \A a \in DOMAIN aliases :
            /\ Len(aliases[a]) = 2
            /\ aliases[a][1] \in Range(classes)
            /\ aliases[a][2] \in ConfigTraits(aliases[a][1])
       /\ call.op = "print_alias_help" => raised = ""

\* C9: when a loader's load_config fails, load_config_file and
\* parse_command_line propagate the error, update_config is not called, and
\* self.config and the configurable attributes are as before the call.
C9_LoaderFailurePropagates ==
    [][ (ncalls' = ncalls + 1 /\ call'.loader = "failed")
        => /\ raised' = (IF call'.op = "load_config_file" THEN "IOError" ELSE "ArgumentError")
           /\ ~Updated'
           /\ passed' = NoObj
           /\ config' = config
           /\ log_level' = log_level
           /\ log' = log
           /\ phase' = phase ]_vars

\* C9's case: loading a missing file failed on an instance that holds a
\* non-empty configuration.
C9_Witness ==
    /\ call.op = "load_config_file"
    /\ call.loader = "failed"
    /\ raised = "IOError"
    /\ config.val # EmptyVal

SecRank(sec) ==
    CASE sec = "Flags" -> 1
      [] sec = "Aliases" -> 2
      [] sec = "Class parameters" -> 3
      [] OTHER -> 4

HasSection(sec) == \E i \in DOMAIN output : output[i].sec = sec

IsClassHelp(l) == l.kind = "classhelp"

\* C10: print_help emits Flags, Aliases, Class parameters and the class help
\* blocks in this order; the Flags and Aliases sections appear exactly when
\* their table is non-empty, the Class parameters header exactly when the
\* registry is non-empty, and the class blocks follow the registry order.
C10_HelpSections ==
    call.op = "print_help"
    => /\ HasSection("Flags") <=> DOMAIN flags # {}
       /\ HasSection("Aliases") <=> DOMAIN aliases # {}
       /\ HasSection("Class parameters") <=> classes # <<>>
       /\ \A i, j \in DOMAIN output : i < j => SecRank(output[i].sec) <= SecRank(output[j].sec)
       /\ LET blocks == SelectSeq(output, IsClassHelp)
          IN /\ Len(blocks) = Len(classes)
             /\ \A i \in DOMAIN blocks : blocks[i].text = classes[i]

====
